---- MODULE Spec2Model ----
(***************************************************************************)
(* Model of the recording pipeline of src/src/App.tsx (the App component   *)
(* defined at lines 419-750): startRecording, the MediaRecorder callbacks, *)
(* processAudioChunk, stopRecording with its delayed note creation,        *)
(* deleteNote and the unmount cleanup.                                     *)
(*                                                                         *)
(* React semantics used throughout: a handler runs with the closure of the *)
(* render in which it was created.  A click runs the handler of the latest *)
(* render, so it sees the current state; an async continuation, a          *)
(* MediaRecorder callback or a setTimeout callback keeps the values that   *)
(* were captured when its closure was created.  Refs (useRef) are shared   *)
(* mutable cells read at the time of use.                                  *)
(*                                                                         *)
(* Texts are sequences of tokens: SP is a blank, a positive number is a    *)
(* word.  The word recognised in segment n is n, which keeps the texts of  *)
(* different segments distinguishable.                                     *)
(***************************************************************************)
EXTENDS Integers, Sequences, FiniteSets, TLC

\* ---- bounds of the model ------------------------------------------------
MaxStarts == 2

MaxSegments == 3

MaxNow == 1

\* start clicks, emitted segments, seconds of time and the teardown, together
MaxEvents == 4

\* notes in the store of the specification of deleteNote
MaxNotes == 4

\* ---- constants of the program --------------------------------------------
\* the clock of the model counts seconds; Date.now() is in milliseconds
MsPerSecond == 1000

SP == 0

VARIABLES
    mounted,                \* the component is mounted
    isRecording,            \* useState
    currentTranscript,      \* useState
    transcriptChunks,       \* useState, the texts of the chunks
    voiceNotes,             \* useState, newest first
    isProcessing,           \* useState
    recordingDuration,      \* useState
    mediaRecorderRef,       \* useRef: index into captures, 0 for null
    recordingStartTimeRef,  \* useRef: ms
    durationIntervalRef,    \* useRef: timer id, 0 for null
    timers,                 \* ids of the setInterval timers still active
    pendingGum,             \* startRecording calls awaiting getUserMedia
    captures,               \* acquired streams with their MediaRecorder (startedAt
                            \* is history: Date.now() when the session began)
    segs,                   \* emitted segments with their processAudioChunk call
    finalizers,             \* setTimeout callbacks of stopRecording not yet run
    finalized,              \* history: the setTimeout callbacks that have run, each
                            \* with the transcript it had captured, whether the
                            \* calls of its session had settled, currentTranscript
                            \* at that time and the notes it added
    appliedSeg,             \* history: segment whose result currentTranscript holds
    lastToast,              \* the latest notification
    startClicks,            \* number of startRecording calls so far
    now                     \* clock, in seconds

vars == << mounted, isRecording, currentTranscript, transcriptChunks, voiceNotes,
           isProcessing, recordingDuration, mediaRecorderRef, recordingStartTimeRef,
           durationIntervalRef, timers, pendingGum, captures, segs, finalizers,
           finalized, appliedSeg, lastToast, startClicks, now >>

\* ---- pure helpers ---------------------------------------------------------
RECURSIVE TrimLeft(_)
TrimLeft(s) ==
    IF s = << >> THEN s
    ELSE IF Head(s) = SP THEN TrimLeft(Tail(s)) ELSE s

RECURSIVE TrimRight(_)
TrimRight(s) ==
    IF s = << >> THEN s
    ELSE IF s[Len(s)] = SP THEN TrimRight(SubSeq(s, 1, Len(s) - 1)) ELSE s

\* a trim that trims nothing
NoTrim(s) == s

\* String.prototype.trim
Trim(s) == TrimRight(TrimLeft(s))

\* updatedChunks.map(chunk => chunk.text).join(' ')
RECURSIVE Join(_)
Join(chunks) ==
    IF chunks = << >> THEN << >>
    ELSE IF Len(chunks) = 1 THEN chunks[1]
    ELSE chunks[1] \o << SP >> \o Join(Tail(chunks))

\* Date.now(), to the second
DateNow == now * MsPerSecond

\* Math.floor((Date.now() - recordingStartTimeRef.current) / 1000)
Elapsed(startMs) == (DateNow - startMs) \div MsPerSecond

\* a state setter: React drops the update of an unmounted component
SetState(old, new) == IF mounted THEN new ELSE old

\* [newNote, ...prev]
Prepend(note, notes) == << note >> \o notes

\* a filter with the test inverted
RECURSIVE FilterKeep(_, _)
FilterKeep(notes, id) ==
    IF notes = << >> THEN << >>
    ELSE IF Head(notes).id # id THEN FilterKeep(Tail(notes), id)
    ELSE << Head(notes) >> \o FilterKeep(Tail(notes), id)

\* prev.filter(note => note.id !== id)
RECURSIVE FilterOut(_, _)
FilterOut(notes, id) ==
    IF notes = << >> THEN << >>
    ELSE IF Head(notes).id = id THEN FilterOut(Tail(notes), id)
    ELSE << Head(notes) >> \o FilterOut(Tail(notes), id)

\* ---- the external services ------------------------------------------------
\* texts blink.ai.transcribeAudio may return for segment n: nothing, a blank,
\* or the word of the segment with blanks around it
TranscribeTexts(n) == { << >>, << SP >>, << SP, n, SP >> }

\* texts blink.ai.generateText may return for a prompt built from combined:
\* the text with blanks around it, or a blank
EnhanceTexts(combined) == { << SP >> \o combined \o << SP >>, << SP >> }

InFlight(n) == segs[n].pc \in { "transcribe", "enhance" }

\* the events of the environment so far, and whether one more may happen
Events == startClicks + Len(segs) + now + (IF mounted THEN 0 ELSE 1)

Room == Events < MaxEvents

\* ---- initial state --------------------------------------------------------
Init ==
    /\ mounted = TRUE
    /\ isRecording = FALSE
    /\ currentTranscript = << >>
    /\ transcriptChunks = << >>
    /\ voiceNotes = << >>
    /\ isProcessing = FALSE
    /\ recordingDuration = 0
    /\ mediaRecorderRef = 0
    /\ recordingStartTimeRef = 0
    /\ durationIntervalRef = 0
    /\ timers = {}
    /\ pendingGum = {}
    /\ captures = << >>
    /\ segs = << >>
    /\ finalizers = {}
    /\ finalized = {}
    /\ appliedSeg = 0
    /\ lastToast = "none"
    /\ startClicks = 0
    /\ now = 0

\* ---- startRecording -------------------------------------------------------
\* The record button calls startRecording when isRecording is false; the call
\* suspends at getUserMedia.  It keeps the processAudioChunk of the render it
\* was clicked in, whose transcriptChunks is the state at the click.
StartClick ==
    /\ mounted
    /\ ~isRecording
    /\ startClicks < MaxStarts
    /\ Room
    /\ startClicks' = startClicks + 1
    /\ pendingGum' = pendingGum \cup { [id |-> startClicks + 1, chunks |-> transcriptChunks] }
    /\ UNCHANGED << mounted, isRecording, currentTranscript, transcriptChunks, voiceNotes,
                    isProcessing, recordingDuration, mediaRecorderRef, recordingStartTimeRef,
                    durationIntervalRef, timers, captures, segs, finalizers, finalized,
                    appliedSeg, lastToast, now >>

\* a catch block that also resets the session
GumRejectResets(p) ==
    /\ p \in pendingGum
    /\ pendingGum' = pendingGum \ { p }
    /\ lastToast' = "start-failed"
    /\ currentTranscript' = SetState(currentTranscript, << >>)
    /\ transcriptChunks' = SetState(transcriptChunks, << >>)
    /\ UNCHANGED << mounted, isRecording, voiceNotes,
                    isProcessing, recordingDuration, mediaRecorderRef, recordingStartTimeRef,
                    durationIntervalRef, timers, captures, segs, finalizers, finalized,
                    appliedSeg, startClicks, now >>

\* getUserMedia rejects: the catch block reports it
GumReject(p) ==
    /\ p \in pendingGum
    /\ pendingGum' = pendingGum \ { p }
    /\ lastToast' = "start-failed"
    /\ UNCHANGED << mounted, isRecording, currentTranscript, transcriptChunks, voiceNotes,
                    isProcessing, recordingDuration, mediaRecorderRef, recordingStartTimeRef,
                    durationIntervalRef, timers, captures, segs, finalizers, finalized,
                    appliedSeg, startClicks, now >>

\* getUserMedia resolves and the rest of the try block runs to its end
GumResolve(p) ==
    /\ p \in pendingGum
    /\ pendingGum' = pendingGum \ { p }
    /\ currentTranscript' = SetState(currentTranscript, << >>)
    /\ appliedSeg' = SetState(appliedSeg, 0)
    /\ transcriptChunks' = SetState(transcriptChunks, << >>)
    /\ recordingDuration' = SetState(recordingDuration, 0)
    /\ recordingStartTimeRef' = DateNow
    /\ captures' = Append(captures, [track |-> "live", rec |-> "recording",
                                     chunks |-> p.chunks, startedAt |-> DateNow])
    /\ mediaRecorderRef' = Len(captures) + 1
    /\ isRecording' = SetState(isRecording, TRUE)
    /\ durationIntervalRef' = Len(captures) + 1
    /\ timers' = timers \cup { Len(captures) + 1 }
    /\ lastToast' = "started"
    /\ UNCHANGED << mounted, voiceNotes, isProcessing, segs, finalizers, finalized,
                    startClicks, now >>

\* getUserMedia resolves, the state is reset, and the MediaRecorder constructor
\* throws (the mime type is not supported): the catch block reports it
GumResolveThrow(p) ==
    /\ p \in pendingGum
    /\ pendingGum' = pendingGum \ { p }
    /\ currentTranscript' = SetState(currentTranscript, << >>)
    /\ appliedSeg' = SetState(appliedSeg, 0)
    /\ transcriptChunks' = SetState(transcriptChunks, << >>)
    /\ recordingDuration' = SetState(recordingDuration, 0)
    /\ recordingStartTimeRef' = DateNow
    /\ captures' = Append(captures, [track |-> "live", rec |-> "none",
                                     chunks |-> p.chunks, startedAt |-> DateNow])
    /\ lastToast' = "start-failed"
    /\ UNCHANGED << mounted, isRecording, voiceNotes, isProcessing, mediaRecorderRef,
                    durationIntervalRef, timers, segs, finalizers, finalized,
                    startClicks, now >>

\* ---- processAudioChunk ----------------------------------------------------
\* the call itself, up to the first await: a segment of size 0 returns at once
\* (sess, text and issue are history: the capture that emitted the segment,
\* the text transcribeAudio returned, and the rank of its generateText call
\* among the calls issued so far, 0 when none was issued)
NewSegment(c, size) ==
    [sess |-> c,
     size |-> size,
     pc |-> IF size = 0 THEN "skipped" ELSE "transcribe",
     chunks |-> captures[c].chunks,
     text |-> << >>,
     issue |-> 0,
     combined |-> << >>]

\* the number of generateText calls issued so far
Issued == Cardinality({ n \in 1..Len(segs) : segs[n].issue > 0 })

\* ondataavailable of a running recorder (the 5 second timeslice)
DataAvailable(c, size) ==
    /\ c \in 1..Len(captures)
    /\ captures[c].rec = "recording"
    /\ Len(segs) < MaxSegments
    /\ Room
    /\ segs' = Append(segs, NewSegment(c, size))
    /\ isProcessing' = IF size = 0 THEN isProcessing ELSE SetState(isProcessing, TRUE)
    /\ UNCHANGED << mounted, isRecording, currentTranscript, transcriptChunks, voiceNotes,
                    recordingDuration, mediaRecorderRef, recordingStartTimeRef,
                    durationIntervalRef, timers, pendingGum, captures, finalizers,
                    finalized, appliedSeg, lastToast, startClicks, now >>

\* the task queued by MediaRecorder.stop(): dataavailable with what was
\* gathered since the last segment, then the stop event, whose handler stops
\* the tracks of the stream
RecorderStopTask(c, size) ==
    /\ c \in 1..Len(captures)
    /\ captures[c].rec = "stopping"
    /\ Len(segs) < MaxSegments
    /\ Room
    /\ segs' = Append(segs, NewSegment(c, size))
    /\ isProcessing' = IF size = 0 THEN isProcessing ELSE SetState(isProcessing, TRUE)
    /\ captures' = [captures EXCEPT ![c].rec = "inactive", ![c].track = "stopped"]
    /\ UNCHANGED << mounted, isRecording, currentTranscript, transcriptChunks, voiceNotes,
                    recordingDuration, mediaRecorderRef, recordingStartTimeRef,
                    durationIntervalRef, timers, pendingGum, finalizers,
                    finalized, appliedSeg, lastToast, startClicks, now >>

\* reading the blob and transcribeAudio succeed with text
TranscribeDone(n, text) ==
    /\ n \in 1..Len(segs)
    /\ segs[n].pc = "transcribe"
    /\ text \in TranscribeTexts(n)
    /\ IF Trim(text) # << >>
       THEN LET updatedChunks == Append(segs[n].chunks, Trim(text))
            IN /\ transcriptChunks' = SetState(transcriptChunks, updatedChunks)
               /\ segs' = [segs EXCEPT ![n].pc = "enhance", ![n].text = text,
                                        ![n].issue = Issued + 1,
                                        ![n].combined = Join(updatedChunks)]
               /\ UNCHANGED isProcessing
       ELSE /\ segs' = [segs EXCEPT ![n].pc = "empty", ![n].text = text]
            /\ isProcessing' = SetState(isProcessing, FALSE)
            /\ UNCHANGED transcriptChunks
    /\ UNCHANGED << mounted, isRecording, currentTranscript, voiceNotes,
                    recordingDuration, mediaRecorderRef, recordingStartTimeRef,
                    durationIntervalRef, timers, pendingGum, captures, finalizers,
                    finalized, appliedSeg, lastToast, startClicks, now >>

\* reading the blob or transcribeAudio fails: catch, then finally
TranscribeFail(n) ==
    /\ n \in 1..Len(segs)
    /\ segs[n].pc = "transcribe"
    /\ segs' = [segs EXCEPT ![n].pc = "tfail"]
    /\ lastToast' = "process-error"
    /\ isProcessing' = SetState(isProcessing, FALSE)
    /\ UNCHANGED << mounted, isRecording, currentTranscript, transcriptChunks, voiceNotes,
                    recordingDuration, mediaRecorderRef, recordingStartTimeRef,
                    durationIntervalRef, timers, pendingGum, captures, finalizers,
                    finalized, appliedSeg, startClicks, now >>

\* generateText succeeds with improved
EnhanceDone(n, improved) ==
    /\ n \in 1..Len(segs)
    /\ segs[n].pc = "enhance"
    /\ improved \in EnhanceTexts(segs[n].combined)
    /\ currentTranscript' = SetState(currentTranscript, Trim(improved))
    /\ appliedSeg' = SetState(appliedSeg, n)
    /\ segs' = [segs EXCEPT ![n].pc = "applied"]
    /\ isProcessing' = SetState(isProcessing, FALSE)
    /\ UNCHANGED << mounted, isRecording, transcriptChunks, voiceNotes,
                    recordingDuration, mediaRecorderRef, recordingStartTimeRef,
                    durationIntervalRef, timers, pendingGum, captures, finalizers,
                    finalized, lastToast, startClicks, now >>

\* a catch block that also clears the transcript
EnhanceFailClears(n) ==
    /\ n \in 1..Len(segs)
    /\ segs[n].pc = "enhance"
    /\ segs' = [segs EXCEPT ![n].pc = "efail"]
    /\ lastToast' = "process-error"
    /\ isProcessing' = SetState(isProcessing, FALSE)
    /\ currentTranscript' = SetState(currentTranscript, << >>)
    /\ UNCHANGED << mounted, isRecording, transcriptChunks, voiceNotes,
                    recordingDuration, mediaRecorderRef, recordingStartTimeRef,
                    durationIntervalRef, timers, pendingGum, captures, finalizers,
                    finalized, appliedSeg, startClicks, now >>

\* generateText fails: catch, then finally
EnhanceFail(n) ==
    /\ n \in 1..Len(segs)
    /\ segs[n].pc = "enhance"
    /\ segs' = [segs EXCEPT ![n].pc = "efail"]
    /\ lastToast' = "process-error"
    /\ isProcessing' = SetState(isProcessing, FALSE)
    /\ UNCHANGED << mounted, isRecording, currentTranscript, transcriptChunks, voiceNotes,
                    recordingDuration, mediaRecorderRef, recordingStartTimeRef,
                    durationIntervalRef, timers, pendingGum, captures, finalizers,
                    finalized, appliedSeg, startClicks, now >>

\* ---- stopRecording --------------------------------------------------------
\* mediaRecorderRef.current.stop() when the recorder of the ref is recording:
\* its state becomes inactive and the stop task is queued
StopRecorder(caps, ref) ==
    IF ref # 0 /\ caps[ref].rec = "recording"
    THEN [caps EXCEPT ![ref].rec = "stopping"]
    ELSE caps

\* clearInterval(durationIntervalRef.current)
ClearInterval(active, ref) == active \ { ref }

\* The record button calls stopRecording when isRecording is true; it is
\* disabled while isRecording && isProcessing.  The setTimeout callback keeps
\* the currentTranscript of the render of the click.
StopClick ==
    /\ mounted
    /\ isRecording
    /\ ~isProcessing
    /\ captures' = StopRecorder(captures, mediaRecorderRef)
    /\ timers' = ClearInterval(timers, durationIntervalRef)
    /\ isRecording' = FALSE
    /\ isProcessing' = FALSE
    /\ finalizers' = finalizers \cup
          { [sess |-> mediaRecorderRef, transcript |-> currentTranscript] }
    /\ UNCHANGED << mounted, currentTranscript, transcriptChunks, voiceNotes,
                    recordingDuration, mediaRecorderRef, recordingStartTimeRef,
                    durationIntervalRef, pendingGum, segs, finalized, appliedSeg,
                    lastToast, startClicks, now >>

\* every processAudioChunk call of session c has returned, the one of the
\* final segment included
Settled(c) ==
    /\ captures[c].rec = "inactive"
    /\ \A n \in 1..Len(segs) : segs[n].sess = c => ~InFlight(n)

\* the note built by the updater passed to setVoiceNotes; two callbacks never
\* run in the same millisecond: each runs at least 1 ms after the one before
NewNote(transcript) ==
    [id |-> DateNow + Cardinality(finalized),
     text |-> Trim(transcript),
     timestamp |-> DateNow + Cardinality(finalized),
     duration |-> Elapsed(recordingStartTimeRef)]

\* an updater without the test of the transcript
SaveNoteAlways(transcript, prev) == Prepend(NewNote(transcript), prev)

\* the updater passed to setVoiceNotes
SaveNote(transcript, prev) ==
    IF Trim(transcript) # << >> THEN Prepend(NewNote(transcript), prev) ELSE prev

\* the setTimeout callback of stopRecording, 500 ms after the click or later
\* (at any point of the second of the click, or in a later second)
Finalize(f) ==
    /\ f \in finalizers
    /\ finalizers' = finalizers \ { f }
    /\ voiceNotes' = SetState(voiceNotes, SaveNote(f.transcript, voiceNotes))
    /\ lastToast' = IF mounted /\ Trim(f.transcript) # << >> THEN "saved" ELSE lastToast
    /\ finalized' = finalized \cup
          { [sess |-> f.sess,
             transcript |-> f.transcript,
             settled |-> Settled(f.sess),
             current |-> currentTranscript,
             added |-> SubSeq(voiceNotes', 1, Len(voiceNotes') - Len(voiceNotes))] }
    /\ UNCHANGED << mounted, isRecording, currentTranscript, transcriptChunks,
                    isProcessing, recordingDuration, mediaRecorderRef, recordingStartTimeRef,
                    durationIntervalRef, timers, pendingGum, captures, segs, appliedSeg,
                    startClicks, now >>

\* ---- timers, notes, teardown ----------------------------------------------
\* the setInterval callback of startRecording
DurationTick(t) ==
    /\ t \in timers
    /\ recordingDuration' = SetState(recordingDuration, Elapsed(recordingStartTimeRef))
    /\ recordingDuration' # recordingDuration
    /\ UNCHANGED << mounted, isRecording, currentTranscript, transcriptChunks, voiceNotes,
                    isProcessing, mediaRecorderRef, recordingStartTimeRef,
                    durationIntervalRef, timers, pendingGum, captures, segs, finalizers,
                    finalized, appliedSeg, lastToast, startClicks, now >>

\* time passes
Advance ==
    /\ now < MaxNow
    /\ Room
    /\ now' = now + 1
    /\ UNCHANGED << mounted, isRecording, currentTranscript, transcriptChunks, voiceNotes,
                    isProcessing, recordingDuration, mediaRecorderRef, recordingStartTimeRef,
                    durationIntervalRef, timers, pendingGum, captures, segs, finalizers,
                    finalized, appliedSeg, lastToast, startClicks >>

\* the ids of the notes on display, each with its delete button
NoteIds == { voiceNotes[i].id : i \in 1..Len(voiceNotes) }

\* (the function tests nothing: an id that is not in the list is accepted)
deleteNote(id) ==
    /\ mounted
    /\ voiceNotes' = FilterOut(voiceNotes, id)
    /\ lastToast' = "deleted"
    /\ UNCHANGED << mounted, isRecording, currentTranscript, transcriptChunks,
                    isProcessing, recordingDuration, mediaRecorderRef, recordingStartTimeRef,
                    durationIntervalRef, timers, pendingGum, captures, segs, finalizers,
                    finalized, appliedSeg, startClicks, now >>

\* the cleanup of the useEffect
Unmount ==
    /\ mounted
    /\ Room
    /\ mounted' = FALSE
    /\ timers' = ClearInterval(timers, durationIntervalRef)
    /\ captures' = StopRecorder(captures, mediaRecorderRef)
    /\ UNCHANGED << isRecording, currentTranscript, transcriptChunks, voiceNotes,
                    isProcessing, recordingDuration, mediaRecorderRef, recordingStartTimeRef,
                    durationIntervalRef, pendingGum, segs, finalizers, finalized,
                    appliedSeg, lastToast, startClicks, now >>

\* ---- specification --------------------------------------------------------
Next ==
    \/ StartClick
    \/ \E p \in pendingGum : GumReject(p)
    \/ \E p \in pendingGum : GumResolve(p)
    \/ \E p \in pendingGum : GumResolveThrow(p)
    \/ \E c \in 1..Len(captures), size \in 0..1 : DataAvailable(c, size)
    \/ \E c \in 1..Len(captures), size \in 0..1 : RecorderStopTask(c, size)
    \/ \E n \in 1..Len(segs) : \E text \in TranscribeTexts(n) : TranscribeDone(n, text)
    \/ \E n \in 1..Len(segs) : TranscribeFail(n)
    \/ \E n \in 1..Len(segs) : \E improved \in EnhanceTexts(segs[n].combined) : EnhanceDone(n, improved)
    \/ \E n \in 1..Len(segs) : EnhanceFail(n)
    \/ StopClick
    \/ \E f \in finalizers : Finalize(f)
    \/ \E t \in timers : DurationTick(t)
    \/ Advance
    \/ \E id \in NoteIds : deleteNote(id)
    \/ Unmount

Spec == Init /\ [][Next]_vars

\* ---- deleteNote on its own ---------------------------------------------------
\* the notes a store can hold: ids are times of creation, texts are not empty
StoreNotes ==
    { [id |-> i, text |-> << w >>, timestamp |-> i, duration |-> 0] :
        i \in 1..MaxNotes, w \in 1..2 }

\* the stores: newest first, so with ids strictly decreasing
StoreLists ==
    { l \in UNION { [1..k -> StoreNotes] : k \in 0..MaxNotes } :
        \A i \in 1..Len(l) : \A j \in 1..Len(l) : i < j => l[i].id > l[j].id }

\* the ids deleteNote is called with: those of the notes and one no note has
StoreIds == 0..MaxNotes

InitStore ==
    /\ voiceNotes \in StoreLists
    /\ mounted = TRUE
    /\ isRecording = FALSE
    /\ currentTranscript = << >>
    /\ transcriptChunks = << >>
    /\ isProcessing = FALSE
    /\ recordingDuration = 0
    /\ mediaRecorderRef = 0
    /\ recordingStartTimeRef = 0
    /\ durationIntervalRef = 0
    /\ timers = {}
    /\ pendingGum = {}
    /\ captures = << >>
    /\ segs = << >>
    /\ finalizers = {}
    /\ finalized = {}
    /\ appliedSeg = 0
    /\ lastToast = "none"
    /\ startClicks = 0
    /\ now = 0

NextStore == \E id \in StoreIds : deleteNote(id)

SpecStore == InitStore /\ [][NextStore]_vars

\* ---- properties ------------------------------------------------------------
\* one session only, on a mounted component
OneSession == mounted /\ startClicks = 1

\* the text consists of blanks only
IsBlank(s) == \A i \in 1..Len(s) : s[i] = SP

\* every word of the text was recognised in a segment of capture c
WordsOf(text, c) == \A i \in 1..Len(text) : text[i] # SP => segs[text[i]].sess = c

\* C1: when a generateText call returns after a call of the same session that
\* was triggered by a later segment and issued later has been applied, its
\* result is discarded: currentTranscript keeps the later result.
C1_StaleResultDiscarded ==
    [][ \A n \in 1..Len(segs) :
          ( /\ mounted
            /\ segs[n].pc = "enhance"
            /\ segs'[n].pc # "enhance"
            /\ appliedSeg > n
            /\ segs[appliedSeg].sess = segs[n].sess
            /\ segs[appliedSeg].issue > segs[n].issue )
          => currentTranscript' = currentTranscript ]_vars

\* C2: in one session whose segments all yielded text and whose transcriptions
\* came back in the order of the segments, once every processAudioChunk call
\* has returned transcriptChunks holds the texts of all the segments in order,
\* and the generateText call of segment k was issued over the join of the
\* texts of segments 1..k.
C2_FragmentAccumulation ==
    ( /\ OneSession
      /\ \A n \in 1..Len(segs) : segs[n].pc \in { "applied", "efail" } /\ segs[n].issue = n )
    => /\ transcriptChunks = [ n \in 1..Len(segs) |-> Trim(segs[n].text) ]
       /\ \A k \in 1..Len(segs) :
             segs[k].combined = Join([ n \in 1..k |-> Trim(segs[n].text) ])

\* C3: when the callback of stopRecording runs after every call of the stopped
\* session has settled, it adds a note iff the settled currentTranscript is
\* not empty, and the text of the note is that transcript.
C3_StopWaitsForTail ==
    OneSession =>
        \A r \in finalized :
            r.settled =>
                /\ (r.added # << >>) <=> (r.current # << >>)
                /\ r.added # << >> => Head(r.added).text = r.current

\* C4: the input of every generateText call holds only fragments of the
\* session of the segment that triggered it, and transcriptChunks holds only
\* fragments of the session of its latest fragment.
C4_SessionReset ==
    /\ \A n \in 1..Len(segs) : WordsOf(segs[n].combined, segs[n].sess)
    /\ transcriptChunks # << >> =>
          WordsOf(Join(transcriptChunks),
                  segs[transcriptChunks[Len(transcriptChunks)][1]].sess)

\* C5: at most one MediaRecorder is recording and at most one duration timer
\* is active.
C5_NoDoubleStart ==
    /\ Cardinality({ c \in 1..Len(captures) : captures[c].rec = "recording" }) <= 1
    /\ Cardinality(timers) <= 1

\* C6: a stream whose tracks are live belongs to the recorder of a mounted,
\* recording component, or to a recorder whose stop task is about to run.
C6_MicrophoneReleased ==
    \A c \in 1..Len(captures) :
        captures[c].track = "live" =>
            \/ captures[c].rec = "stopping"
            \/ captures[c].rec = "recording" /\ mounted /\ isRecording

C8_TranscriptionFailureNonFatal ==
    [][ OneSession =>
          \A n \in 1..Len(segs) :
             /\ (segs[n].pc = "transcribe" /\ segs'[n].pc = "tfail")
                => /\ isRecording' = isRecording
                   /\ transcriptChunks' = transcriptChunks
                   /\ currentTranscript' = currentTranscript
                   /\ segs'[n].issue = 0
             /\ ( /\ segs[n].pc = "transcribe"
                  /\ segs'[n].pc = "enhance"
                  /\ \E m \in 1..(n - 1) : segs[m].pc = "tfail" )
                => transcriptChunks' = Append(transcriptChunks, Trim(segs'[n].text)) ]_vars

\* C9: when a generateText call fails, currentTranscript keeps the value it
\* had, and isRecording and transcriptChunks stay as they are.
C9_EnhancementFailureKeepsTranscript ==
    [][ \A n \in 1..Len(segs) :
          (segs[n].pc = "enhance" /\ segs'[n].pc = "efail")
          => /\ currentTranscript' = currentTranscript
             /\ isRecording' = isRecording
             /\ transcriptChunks' = transcriptChunks ]_vars

C9_Witness ==
    \E n \in 1..Len(segs) :
        /\ segs[n].pc = "efail"
        /\ mounted
        /\ isRecording
        /\ currentTranscript # << >>

\* C10: a segment whose transcription is blank appends no fragment, issues no
\* generateText call and leaves currentTranscript unchanged; a segment of
\* size 0 never reaches transcribeAudio.
C10_EmptySpeechContributesNothing ==
    [][ \A n \in 1..Len(segs') :
          /\ ( /\ n <= Len(segs)
               /\ segs[n].pc = "transcribe"
               /\ segs'[n].pc \notin { "transcribe", "tfail" }
               /\ IsBlank(segs'[n].text) )
             => /\ transcriptChunks' = transcriptChunks
                /\ currentTranscript' = currentTranscript
                /\ segs'[n].pc = "empty"
                /\ segs'[n].issue = 0
          /\ segs'[n].size = 0 => segs'[n].pc = "skipped" ]_vars

C10_Witness ==
    /\ mounted
    /\ currentTranscript # << >>
    /\ \E n \in 1..Len(segs) : segs[n].pc = "empty" /\ segs[n].text = << SP >>
    /\ \E n \in 1..Len(segs) : segs[n].size = 0 /\ segs[n].pc = "skipped"

\* the list without its element at position i
Without(l, i) == SubSeq(l, 1, i - 1) \o SubSeq(l, i + 1, Len(l))

\* C11: deleteNote(id) leaves the store unchanged when no note has the id, and
\* otherwise removes that one note and keeps the others in their order; it
\* reports success, and deleting the same id again changes nothing.
C11_IdempotentDeletion ==
    [][ \A id \in StoreIds :
          deleteNote(id) =>
             /\ lastToast' = "deleted"
             /\ id \notin NoteIds => voiceNotes' = voiceNotes
             /\ id \in NoteIds =>
                   \E i \in 1..Len(voiceNotes) :
                      /\ voiceNotes[i].id = id
                      /\ voiceNotes' = Without(voiceNotes, i)
             /\ FilterOut(voiceNotes', id) = voiceNotes' ]_vars

C11_Witness ==
    /\ lastToast = "deleted"
    /\ Len(voiceNotes) = MaxNotes - 1

\* C12: when getUserMedia fails for a startRecording call (the call ends and
\* no stream was acquired), isRecording stays as it was, false for a session
\* that was Idle; no recorder and no timer is started; transcriptChunks,
\* currentTranscript and voiceNotes are unchanged; the failure is reported and
\* no new call is made.
C12_DeviceFailureLeavesIdle ==
    [][ \A p \in pendingGum :
          (pendingGum' = pendingGum \ { p } /\ Len(captures') = Len(captures))
          => /\ isRecording' = isRecording
             /\ captures' = captures
             /\ mediaRecorderRef' = mediaRecorderRef
             /\ timers' = timers
             /\ durationIntervalRef' = durationIntervalRef
             /\ transcriptChunks' = transcriptChunks
             /\ currentTranscript' = currentTranscript
             /\ voiceNotes' = voiceNotes
             /\ lastToast' = "start-failed"
             /\ startClicks' = startClicks ]_vars

C12_Witness ==
    /\ lastToast = "start-failed"
    /\ mounted
    /\ ~isRecording
    /\ Len(captures) = 1
    /\ captures[1].rec = "inactive"
    /\ currentTranscript # << >>
    /\ transcriptChunks # << >>
    /\ voiceNotes # << >>

\* the session the state belongs to: that of the latest startRecording call
\* that got its stream and reset the state
CurrentSession == Len(captures)

\* every startRecording call that got its stream started its recorder, and
\* every session but the current one has been stopped
EarlierStopped ==
    /\ \A c \in 1..Len(captures) : captures[c].rec # "none"
    /\ \A c \in 1..(Len(captures) - 1) : captures[c].rec = "inactive"

\* C13: on a mounted component whose earlier sessions were all stopped,
\* currentTranscript is empty or the result of a generateText call of the
\* current session, and the latest fragment of transcriptChunks comes from a
\* segment of the current session.
C13_TranscriptOfCurrentSession ==
    (mounted /\ EarlierStopped) =>
        /\ appliedSeg # 0 => segs[appliedSeg].sess = CurrentSession
        /\ currentTranscript # << >> => appliedSeg # 0
        /\ transcriptChunks # << >> =>
              segs[transcriptChunks[Len(transcriptChunks)][1]].sess = CurrentSession

\* C14: the note of a stopped session has for duration the whole seconds
\* between the start of that session and the creation of the note, and the
\* duration is not negative.
C14_DurationOfOwnSession ==
    \A r \in finalized :
        r.added # << >> =>
            /\ r.added[1].duration =
                  (r.added[1].timestamp - captures[r.sess].startedAt) \div MsPerSecond
            /\ r.added[1].duration >= 0

\* C15: on a mounted component isProcessing is true whenever a generateText
\* call is outstanding, and false whenever no processAudioChunk call is.
C15_ProcessingMatchesOutstanding ==
    mounted =>
        /\ (\E n \in 1..Len(segs) : segs[n].pc = "enhance") => isProcessing
        /\ (\A n \in 1..Len(segs) : ~InFlight(n)) => ~isProcessing

====
